---- MODULE Spec2Model ----
(***************************************************************************)
(* A model of dxfnest: bounding-box nesting of parts on a rectangular      *)
(* sheet (class Sheet), the genetic search over part orders                *)
(* (genetic_algorithm) and the driver that replays the chosen order        *)
(* (nest_parts).                                                           *)
(*                                                                         *)
(* Conventions.  A bounding box is the tuple <<min_x, min_y, max_x,        *)
(* max_y>>.  A Part is its index into the parts list; Python's indices     *)
(* 0..n-1 are written 1..n here, so a permutation of [0, n) is a           *)
(* permutation of 1..n.  Part.position is an attribute the constructor     *)
(* never sets: the unset attribute is the empty tuple None, a set one is   *)
(* <<x_offset, y_offset>>.  A Sheet is the record [width, height, parts],  *)
(* parts being the list of accepted Part objects (indices); the position   *)
(* of an accepted part is read from the Part, as the code does.            *)
(***************************************************************************)
EXTENDS Integers, Sequences, FiniteSets, TLC

VARIABLES
    part_files,       \* per input file, the list of sample points its entities yield
    parts,            \* nest_parts' local list of Part objects, in list order
    bounding_box,     \* the bounding_box of Part i, i \in 1..n
    position,         \* parts[i].position (None while the attribute is unset)
    sheet,            \* the Sheet under construction: [width, height, parts]
    call,             \* arguments of the last direct Sheet.add_part call: <<part, position>>
    ret,              \* value returned by the last direct Sheet.add_part call
    population_size,  \* genetic_algorithm's parameter
    generations,      \* genetic_algorithm's parameter
    population,       \* genetic_algorithm's local: list of orders
    next_generation,  \* genetic_algorithm's local
    generation,       \* iterations of the generation loop completed
    keys,             \* fitness values the last population.sort(key=fitness) computed,
                      \* in the order of the sorted population
    top,              \* value of fitness(population[0]) in the last early-exit test
    best_order,       \* nest_parts' local: the order genetic_algorithm returned
    index,            \* nest_parts' loop: entries of best_order already replayed
    reported,         \* parts announced as "Could not place part"
    pc                \* control point of the run

vars == <<part_files, parts, bounding_box, position, sheet, call, ret, population_size, generations,
          population, next_generation, generation, keys, top, best_order, index,
          reported, pc>>

gaVars == <<population_size, generations, population, next_generation, generation,
            keys, top, best_order, index, reported>>

None == <<>>

\* ---------------------------------------------------------------- bounds

\* Largest number of entries the accepted list of a Sheet driven through
\* add_part directly is allowed to reach.
MaxAccepted == 3

\* Part objects offered to a Sheet driven through add_part directly.
SheetParts == 1..2

\* Bounding boxes of those parts: min <= max on each axis, one of them
\* degenerate in x.
SheetBoxes ==
    { <<x[1], y[1], x[2], y[2]>> :
        x \in {<<0, 5>>, <<0, 10>>, <<5, 10>>, <<5, 5>>},
        y \in {<<0, 5>>, <<0, 10>>} }

\* Dimensions <<width, height>> of that Sheet.
DirectSheets == {<<15, 10>>, <<20, 10>>}

\* Positions offered to add_part directly (some leave the sheet).
DirectPositions == {<<x, y>> : x \in {-5, 0, 5, 10}, y \in {0, 5}}

\* ------------------------------------------------------------ class Part

\* A list of sample points whose bounding box is b: two opposite corners.
CornerPoints(b) == << <<b[1], b[2]>>, <<b[3], b[4]>> >>

MinOf(S) == CHOOSE m \in S : \A v \in S : m <= v
MaxOf(S) == CHOOSE m \in S : \A v \in S : m >= v

\* A plausible slip: a part without points gets an empty box at the origin.
CalculateBoundingBoxDefault(points) ==
    IF points = <<>>
    THEN [raised |-> FALSE, box |-> <<0, 0, 0, 0>>]
    ELSE LET xs == {points[i][1] : i \in 1..Len(points)}
             ys == {points[i][2] : i \in 1..Len(points)}
         IN  [raised |-> FALSE, box |-> <<MinOf(xs), MinOf(ys), MaxOf(xs), MaxOf(ys)>>]

\* Part.calculate_bounding_box on the list of points its entities yield:
\* min() of an empty list raises ValueError.
CalculateBoundingBox(points) ==
    IF points = <<>>
    THEN [raised |-> TRUE, box |-> None]
    ELSE LET xs == {points[i][1] : i \in 1..Len(points)}
             ys == {points[i][2] : i \in 1..Len(points)}
         IN  [raised |-> FALSE, box |-> <<MinOf(xs), MinOf(ys), MaxOf(xs), MaxOf(ys)>>]

\* ----------------------------------------------------------- class Sheet

NewSheet(width, height) == [width |-> width, height |-> height, parts |-> <<>>]

\* The bounding box of `part` translated by `pos`.
Translated(part, pos) ==
    LET b == bounding_box[part]
    IN  <<b[1] + pos[1], b[2] + pos[2], b[3] + pos[1], b[4] + pos[2]>>

\* A plausible slip: strict comparisons, so that boxes sharing an edge count
\* as overlapping.
CheckOverlapStrict(pos_of, part, pos, placed_part) ==
    LET rect1 == Translated(part, pos)
        rect2 == Translated(placed_part, pos_of[placed_part])
    IN  ~(rect1[3] < rect2[1] \/ rect1[1] > rect2[3] \/
          rect1[4] < rect2[2] \/ rect1[2] > rect2[4])

\* A plausible slip: one of the four comparisons strict, so that the answer
\* depends on which of the two boxes is the offered one.
CheckOverlapOneSided(pos_of, part, pos, placed_part) ==
    LET rect1 == Translated(part, pos)
        rect2 == Translated(placed_part, pos_of[placed_part])
    IN  ~(rect1[3] < rect2[1] \/ rect1[1] >= rect2[3] \/
          rect1[4] <= rect2[2] \/ rect1[2] >= rect2[4])

\* Sheet.check_overlap: pos_of holds every Part's current position attribute.
CheckOverlap(pos_of, part, pos, placed_part) ==
    LET rect1 == Translated(part, pos)
        rect2 == Translated(placed_part, pos_of[placed_part])
    IN  ~(rect1[3] <= rect2[1] \/ rect1[1] >= rect2[3] \/
          rect1[4] <= rect2[2] \/ rect1[2] >= rect2[4])

\* A plausible slip: a box that reaches the far edge of the sheet is refused.
CanPlaceInsideOnly(sh, pos_of, part, pos) ==
    LET r == Translated(part, pos)
    IN  IF r[1] < 0 \/ r[3] >= sh.width \/ r[2] < 0 \/ r[4] >= sh.height
        THEN FALSE
        ELSE \A k \in 1..Len(sh.parts) :
                 ~CheckOverlap(pos_of, part, pos, sh.parts[k])

\* Sheet.can_place
CanPlace(sh, pos_of, part, pos) ==
    LET r == Translated(part, pos)
    IN  IF r[1] < 0 \/ r[3] > sh.width \/ r[2] < 0 \/ r[4] > sh.height
        THEN FALSE
        ELSE \A k \in 1..Len(sh.parts) :
                 ~CheckOverlap(pos_of, part, pos, sh.parts[k])

\* A plausible slip: the position is stored before the test.
AddPartEager(sh, pos_of, part, pos) ==
    IF CanPlace(sh, pos_of, part, pos)
    THEN [ret |-> TRUE,
          sheet |-> [sh EXCEPT !.parts = Append(@, part)],
          position |-> [pos_of EXCEPT ![part] = pos]]
    ELSE [ret |-> FALSE, sheet |-> sh,
          position |-> [pos_of EXCEPT ![part] = pos]]

\* A plausible slip: the position is stored only while the Part has none.
AddPartOnce(sh, pos_of, part, pos) ==
    IF CanPlace(sh, pos_of, part, pos)
    THEN [ret |-> TRUE,
          sheet |-> [sh EXCEPT !.parts = Append(@, part)],
          position |-> IF pos_of[part] = None
                       THEN [pos_of EXCEPT ![part] = pos]
                       ELSE pos_of]
    ELSE [ret |-> FALSE, sheet |-> sh, position |-> pos_of]

\* Sheet.add_part: the returned value, the Sheet and the Parts' positions
\* after the call.
AddPart(sh, pos_of, part, pos) ==
    IF CanPlace(sh, pos_of, part, pos)
    THEN [ret |-> TRUE,
          sheet |-> [sh EXCEPT !.parts = Append(@, part)],
          position |-> [pos_of EXCEPT ![part] = pos]]
    ELSE [ret |-> FALSE, sheet |-> sh, position |-> pos_of]

\* ------------------------------------------- a Sheet driven by add_part

InitSheet ==
    /\ bounding_box \in [SheetParts -> SheetBoxes]
    /\ part_files = [p \in DOMAIN bounding_box |-> CornerPoints(bounding_box[p])]
    /\ parts = [p \in DOMAIN bounding_box |-> p]
    /\ position = [p \in SheetParts |-> None]
    /\ \E d \in DirectSheets : sheet = NewSheet(d[1], d[2])
    /\ call = None
    /\ ret = FALSE
    /\ population_size = 0
    /\ generations = 0
    /\ population = <<>>
    /\ next_generation = <<>>
    /\ generation = 0
    /\ keys = <<>>
    /\ top = 0
    /\ best_order = <<>>
    /\ index = 0
    /\ reported = <<>>
    /\ pc = "sheet"

\* One call sheet.add_part(part, pos).
CallAddPart ==
    /\ pc = "sheet"
    /\ Len(sheet.parts) < MaxAccepted
    /\ \E part \in SheetParts, pos \in DirectPositions :
          LET r == AddPart(sheet, position, part, pos)
          IN  /\ call' = <<part, pos>>
              /\ ret' = r.ret
              /\ sheet' = r.sheet
              /\ position' = r.position
    /\ UNCHANGED <<part_files, parts, bounding_box, pc>>
    /\ UNCHANGED gaVars

NextSheet == CallAddPart

SpecSheet == InitSheet /\ [][NextSheet]_vars

\* ------------------------------------------------- bounds of a whole run

\* Largest number of parts of a run (len(parts) ranges over 1..MaxParts).
MaxParts == 2

\* The generations parameter of the run (100 in the program).
MaxGenerations == 2

\* Values of the population_size parameter (50 in the program).
PopulationSizes == {2, 3}

\* Dimensions <<sheet_width, sheet_height>> of a run.
RunSheets == {<<25, 20>>, <<10, 10>>}

\* Bounding boxes of the parts of a run.
RunBoxes == {<<0, 0, 10, 10>>, <<0, 0, 20, 20>>, <<0, 0, 5, 10>>}

\* ---------------------------------------------------- genetic_algorithm

\* float('inf'): a value no count of parts equals, greater than every count.
Inf == -1

\* a < b on fitness values
FitnessLess(a, b) == a # Inf /\ (b = Inf \/ a < b)

\* The step of the candidate lattice in fitness.
FitnessStep == 10

\* population[:10]
TopK == 10

NumParts == Len(bounding_box)

\* The orders random.sample(range(n), n) can return.
Orders(n) ==
    {f \in [1..n -> 1..n] : \A i, j \in 1..n : f[i] = f[j] => i = j}

IsPermutation(order) ==
    /\ Len(order) = NumParts
    /\ \A v \in 1..NumParts : Cardinality({i \in 1..Len(order) : order[i] = v}) = 1

\* The two nested range(0, ..., 10) loops of fitness, from candidate (x, y)
\* on: the first candidate add_part accepts ends the scan.
RECURSIVE FitnessColumn(_, _, _, _, _)
FitnessColumn(sh, pos_of, part, x, y) ==
    IF y >= sh.height
    THEN [placed |-> FALSE, sheet |-> sh, position |-> pos_of]
    ELSE LET r == AddPart(sh, pos_of, part, <<x, y>>)
         IN  IF r.ret
             THEN [placed |-> TRUE, sheet |-> r.sheet, position |-> r.position]
             ELSE FitnessColumn(sh, pos_of, part, x, y + FitnessStep)

\* The outer loop, for x in range(0, sheet_width, 10), from column x on, the
\* first column from row y on; it breaks once the inner loop placed the part.
RECURSIVE FitnessScan(_, _, _, _, _)
FitnessScan(sh, pos_of, part, x, y) ==
    IF x >= sh.width
    THEN [placed |-> FALSE, sheet |-> sh, position |-> pos_of]
    ELSE LET r == FitnessColumn(sh, pos_of, part, x, y)
         IN  IF r.placed
             THEN r
             ELSE FitnessScan(sh, pos_of, part, x + FitnessStep, 0)

\* A plausible slip: an order that fails to place a part scores 0.
RECURSIVE FitnessFromZero(_, _, _, _)
FitnessFromZero(sh, pos_of, order, k) ==
    IF k > Len(order)
    THEN [value |-> Len(sh.parts), position |-> pos_of]
    ELSE LET r == FitnessScan(sh, pos_of, order[k], 0, 0)
         IN  IF ~r.placed
             THEN [value |-> 0, position |-> r.position]
             ELSE FitnessFromZero(r.sheet, r.position, order, k + 1)

\* A plausible slip: a part that cannot be placed is skipped and the count
\* of placed parts is returned.
RECURSIVE FitnessFromCount(_, _, _, _)
FitnessFromCount(sh, pos_of, order, k) ==
    IF k > Len(order)
    THEN [value |-> Len(sh.parts), position |-> pos_of]
    ELSE LET r == FitnessScan(sh, pos_of, order[k], 0, 0)
         IN  FitnessFromCount(r.sheet, r.position, order, k + 1)

\* The loop of fitness over order[k..]: the value returned and the Parts'
\* positions the trial leaves behind.
RECURSIVE FitnessFrom(_, _, _, _)
FitnessFrom(sh, pos_of, order, k) ==
    IF k > Len(order)
    THEN [value |-> Len(sh.parts), position |-> pos_of]
    ELSE LET r == FitnessScan(sh, pos_of, order[k], 0, 0)
         IN  IF ~r.placed
             THEN [value |-> Inf, position |-> r.position]
             ELSE FitnessFrom(r.sheet, r.position, order, k + 1)

\* fitness(order), called when the Parts' positions are pos_of.
Fitness(pos_of, order) ==
    FitnessFrom(NewSheet(sheet.width, sheet.height), pos_of, order, 1)

\* A plausible slip: the child is parent1's prefix followed by parent2's tail.
CrossoverTail(parent1, parent2, point) ==
    SubSeq(parent1, 1, point) \o SubSeq(parent2, point + 1, Len(parent2))

\* crossover, with the cut point random.randint drew.
Crossover(parent1, parent2, point) ==
    LET prefix == SubSeq(parent1, 1, point)
        NotInPrefix(x) == \A i \in 1..Len(prefix) : prefix[i] # x
    IN  prefix \o SelectSeq(parent2, NotInPrefix)

\* The draws of mutate: None when random.random() >= mutation_rate, else the
\* two distinct places random.sample(range(len(order)), 2) drew (the swap is
\* the same for i, j and for j, i, so the smaller place is written first).
MutateDraws(n) == {None} \cup {d \in (1..n) \X (1..n) : d[1] < d[2]}

\* mutate: the order after the call.
Mutate(order, draw) ==
    IF draw = None
    THEN order
    ELSE [order EXCEPT ![draw[1]] = order[draw[2]], ![draw[2]] = order[draw[1]]]

\* The key function calls of population.sort(key=fitness): one call per
\* entry, in list order, each starting from the positions the previous left.
RECURSIVE SortKeys(_, _, _, _)
SortKeys(pop, pos_of, k, acc) ==
    IF k > Len(pop)
    THEN [keys |-> acc, position |-> pos_of]
    ELSE LET f == Fitness(pos_of, pop[k])
         IN  SortKeys(pop, f.position, k + 1, Append(acc, f.value))

\* Entry e = [key, order] put into a list sorted by key, after every entry
\* whose key is not greater (list.sort is stable).
RECURSIVE Insert(_, _)
Insert(sorted, e) ==
    IF sorted = <<>> \/ ~FitnessLess(e.key, sorted[Len(sorted)].key)
    THEN Append(sorted, e)
    ELSE Append(Insert(SubSeq(sorted, 1, Len(sorted) - 1), e), sorted[Len(sorted)])

RECURSIVE SortedEntries(_, _, _)
SortedEntries(pop, ks, k) ==
    IF k = 0
    THEN <<>>
    ELSE Insert(SortedEntries(pop, ks, k - 1), [key |-> ks[k], order |-> pop[k]])

\* --------------------------------------------------------- a nesting run

Init ==
    /\ \E n \in 1..MaxParts : bounding_box \in [1..n -> RunBoxes]
    /\ part_files = [p \in DOMAIN bounding_box |-> CornerPoints(bounding_box[p])]
    /\ parts = [p \in DOMAIN bounding_box |-> p]
    /\ position = [p \in DOMAIN bounding_box |-> None]
    /\ \E d \in RunSheets : sheet = NewSheet(d[1], d[2])
    /\ call = None
    /\ ret = FALSE
    /\ population_size \in PopulationSizes
    /\ generations = MaxGenerations
    /\ population = <<>>
    /\ next_generation = <<>>
    /\ generation = 0
    /\ keys = <<>>
    /\ top = 0
    /\ best_order = <<>>
    /\ index = 0
    /\ reported = <<>>
    /\ pc = "start"

\* population = initialize_population()
InitializePopulation ==
    /\ pc = "start"
    /\ population' \in [1..population_size -> Orders(NumParts)]
    /\ pc' = "loop"
    /\ UNCHANGED <<part_files, parts, bounding_box, position, sheet, call, ret, population_size,
                   generations, next_generation, generation, keys, top,
                   best_order, index, reported>>

\* The head of one generation: population.sort(key=fitness), then the test
\* fitness(population[0]) == len(parts), which leaves the loop or starts an
\* empty next_generation.
SortAndTest ==
    /\ pc = "loop"
    /\ generation < generations
    /\ LET k == SortKeys(population, position, 1, <<>>)
           e == SortedEntries(population, k.keys, Len(population))
           f == Fitness(k.position, e[1].order)
       IN  /\ population' = [i \in 1..Len(e) |-> e[i].order]
           /\ keys' = [i \in 1..Len(e) |-> e[i].key]
           /\ top' = f.value
           /\ position' = f.position
           /\ pc' = IF f.value = NumParts THEN "break" ELSE "reproduce"
    /\ next_generation' = <<>>
    /\ UNCHANGED <<part_files, parts, bounding_box, sheet, call, ret, population_size, generations,
                   generation, best_order, index, reported>>

\* One iteration of the loop over range(population_size // 2): two parents
\* are drawn from population[:10], crossed both ways, each child mutated, and
\* both children appended.  random.randint(1, len(parent1) - 1) raises
\* ValueError when there is a single part.
ReproducePair ==
    /\ pc = "reproduce"
    /\ Len(next_generation) < 2 * (population_size \div 2)
    /\ LET top10 == SubSeq(population, 1, IF Len(population) < TopK
                                          THEN Len(population) ELSE TopK)
       IN  \E i \in 1..Len(top10), j \in 1..Len(top10) :
             /\ i # j
             /\ \/ /\ NumParts - 1 < 1
                   /\ pc' = "error"
                   /\ UNCHANGED next_generation
                \/ /\ NumParts - 1 >= 1
                   /\ \E point1 \in 1..(NumParts - 1), point2 \in 1..(NumParts - 1),
                         draw1 \in MutateDraws(NumParts), draw2 \in MutateDraws(NumParts) :
                        next_generation' = next_generation \o
                          << Mutate(Crossover(top10[i], top10[j], point1), draw1),
                             Mutate(Crossover(top10[j], top10[i], point2), draw2) >>
                   /\ pc' = "reproduce"
    /\ UNCHANGED <<part_files, parts, bounding_box, position, sheet, call, ret, population_size,
                   generations, population, generation, keys, top, best_order,
                   index, reported>>

\* population = next_generation, and the next iteration of the loop.
Advance ==
    /\ pc = "reproduce"
    /\ Len(next_generation) = 2 * (population_size \div 2)
    /\ population' = next_generation
    /\ generation' = generation + 1
    /\ pc' = "loop"
    /\ UNCHANGED <<part_files, parts, bounding_box, position, sheet, call, ret, population_size,
                   generations, next_generation, keys, top, best_order, index,
                   reported>>

\* return population[0], after the break or when range(generations) is used
\* up; nest_parts keeps it as best_order.
ReturnBest ==
    /\ \/ pc = "break"
       \/ pc = "loop" /\ generation = generations
    /\ best_order' = population[1]
    /\ index' = 0
    /\ pc' = "replay"
    /\ UNCHANGED <<part_files, parts, bounding_box, position, sheet, call, ret, population_size,
                   generations, population, next_generation, generation, keys,
                   top, reported>>

\* ------------------------------------------------------------ nest_parts

\* The step of the candidate lattice in nest_parts.
NestStep == 10

\* A plausible slip: the loops exchanged, y outside and x inside.
RECURSIVE NestScanColumns(_, _, _, _, _)
NestScanColumns(sh, pos_of, part, x, y) ==
    IF y >= sh.height
    THEN [placed |-> FALSE, sheet |-> sh, position |-> pos_of]
    ELSE IF x >= sh.width
    THEN NestScanColumns(sh, pos_of, part, 0, y + NestStep)
    ELSE LET r == AddPart(sh, pos_of, part, <<x, y>>)
         IN  IF r.ret
             THEN [placed |-> TRUE, sheet |-> r.sheet, position |-> r.position]
             ELSE NestScanColumns(sh, pos_of, part, x + NestStep, y)

\* The inner loop, for y in range(0, sheet_height, 10), of nest_parts at
\* column x, from candidate y on: the first y that add_part accepts.
RECURSIVE NestColumn(_, _, _, _, _)
NestColumn(sh, pos_of, part, x, y) ==
    IF y >= sh.height
    THEN [placed |-> FALSE, sheet |-> sh, position |-> pos_of]
    ELSE LET r == AddPart(sh, pos_of, part, <<x, y>>)
         IN  IF r.ret
             THEN [placed |-> TRUE, sheet |-> r.sheet, position |-> r.position]
             ELSE NestColumn(sh, pos_of, part, x, y + NestStep)

\* The outer loop, for x in range(0, sheet_width, 10), of nest_parts, from
\* column x on, the first column from row y on; it breaks once the inner
\* loop placed the part.
RECURSIVE NestScan(_, _, _, _, _)
NestScan(sh, pos_of, part, x, y) ==
    IF x >= sh.width
    THEN [placed |-> FALSE, sheet |-> sh, position |-> pos_of]
    ELSE LET r == NestColumn(sh, pos_of, part, x, y)
         IN  IF r.placed
             THEN r
             ELSE NestScan(sh, pos_of, part, x + NestStep, 0)

\* One iteration of the loop over best_order: the part is offered to the
\* Sheet at each candidate until add_part accepts it; a part no candidate
\* takes is passed over without a message.
PlacePart ==
    /\ pc = "replay"
    /\ index < Len(best_order)
    /\ LET r == NestScan(sheet, position, best_order[index + 1], 0, 0)
       IN  /\ sheet' = r.sheet
           /\ position' = r.position
    /\ index' = index + 1
    /\ UNCHANGED <<part_files, parts, bounding_box, call, ret, population_size, generations,
                   population, next_generation, generation, keys, top,
                   best_order, reported, pc>>

\* return sheet
ReturnSheet ==
    /\ pc = "replay"
    /\ index = Len(best_order)
    /\ pc' = "done"
    /\ UNCHANGED <<part_files, parts, bounding_box, position, sheet, call, ret, population_size,
                   generations, population, next_generation, generation, keys,
                   top, best_order, index, reported>>

Next ==
    \/ InitializePopulation
    \/ SortAndTest
    \/ ReproducePair
    \/ Advance
    \/ ReturnBest
    \/ PlacePart
    \/ ReturnSheet

Spec == Init /\ [][Next]_vars

\* ----------------------------------------------------------------- claims

InList(list, v) == \E k \in 1..Len(list) : list[k] = v

\* The current translated bounding box of the k-th accepted entry of sheet.
EntryBox(k) == Translated(sheet.parts[k], position[sheet.parts[k]])

InsideSheet(r) == r[1] >= 0 /\ r[3] <= sheet.width /\ r[2] >= 0 /\ r[4] <= sheet.height

\* One box's max equals the other's min on an axis.
Touching(r1, r2) ==
    r1[3] = r2[1] \/ r2[3] = r1[1] \/ r1[4] = r2[2] \/ r2[4] = r1[2]

\* The boxes are strictly apart on an axis.
Apart(r1, r2) ==
    r1[3] < r2[1] \/ r2[3] < r1[1] \/ r1[4] < r2[2] \/ r2[4] < r1[2]

Max(a, b) == IF a > b THEN a ELSE b
Min(a, b) == IF a < b THEN a ELSE b

\* The open interiors of the boxes have a common point.
InteriorsIntersect(r1, r2) ==
    /\ Max(r1[1], r2[1]) < Min(r1[3], r2[3])
    /\ Max(r1[2], r2[2]) < Min(r1[4], r2[4])

\* fitness as a value, evaluated in the current state.
FitnessValue(order) == Fitness(position, order).value

\* C1: after any sequence of add_part calls on one Sheet, every accepted
\* entry's bounding box translated by its part's position lies inside
\* [0, width] x [0, height], and no two accepted entries overlap under
\* check_overlap.
C1_SheetInvariant ==
    \A k \in 1..Len(sheet.parts) :
        /\ InsideSheet(EntryBox(k))
        /\ \A j \in 1..Len(sheet.parts) :
               j # k => ~CheckOverlap(position, sheet.parts[j],
                                      position[sheet.parts[j]], sheet.parts[k])

\* C2: a call add_part(part, pos) for which can_place is false returns false
\* and leaves the accepted list and every Part's position as they were; one
\* for which can_place is true returns true, sets the part's position to pos
\* and appends the part as the last accepted entry.
C2_AddPartFrame ==
    [][ LET part == call'[1]
            pos == call'[2]
        IN  IF CanPlace(sheet, position, part, pos)
            THEN /\ ret' = TRUE
                 /\ position' = [position EXCEPT ![part] = pos]
                 /\ sheet' = [sheet EXCEPT !.parts = Append(@, part)]
            ELSE /\ ret' = FALSE
                 /\ position' = position
                 /\ sheet' = sheet ]_vars

\* A rejected call on a Sheet that holds parts, for a position the part does
\* not have.
C2_Witness ==
    /\ call # None
    /\ ret = FALSE
    /\ sheet.parts # <<>>
    /\ position[call[1]] # call[2]
    /\ position[call[1]] # None

\* C3: the order genetic_algorithm returns is the best of the population it
\* holds when it returns: no individual of that population has a strictly
\* lower fitness.
C3_ReturnsBest ==
    pc \in {"replay", "done"} =>
        \A i \in 1..Len(population) :
            ~FitnessLess(FitnessValue(population[i]), FitnessValue(best_order))

\* C4: at the end of a nesting run every input part is in the Sheet's
\* accepted list or is reported as unplaced.
C4_EveryPartAccounted ==
    pc = "done" =>
        \A p \in 1..NumParts : InList(sheet.parts, p) \/ InList(reported, p)

\* C5: for every part count n >= 1, when no individual places all parts,
\* genetic_algorithm raises no error and returns a permutation of lowest
\* fitness.
C5_ReturnsNormally ==
    (\A i \in 1..Len(population) : FitnessValue(population[i]) = Inf) =>
        /\ pc # "error"
        /\ pc \in {"replay", "done"} =>
              /\ IsPermutation(best_order)
              /\ \A i \in 1..Len(population) :
                    ~FitnessLess(FitnessValue(population[i]), FitnessValue(best_order))

\* C6: every individual of every generation, initial or produced by
\* crossover followed by mutate, is a permutation of the part indices.
C6_Permutations ==
    /\ \A i \in 1..Len(population) : IsPermutation(population[i])
    /\ \A i \in 1..Len(next_generation) : IsPermutation(next_generation[i])

\* A later generation, made of children, two of which differ.
C6_Witness ==
    /\ generation >= 1
    /\ pc = "loop"
    /\ Len(population) >= 2
    /\ population[1] # population[2]

\* C7: for every permutation of the n parts fitness returns exactly n or
\* +infinity; so do the calls the sort and the early-exit test made.  (The
\* parts' positions do not change during reproduction, so the permutations
\* are evaluated at the states around it.)
C7_FitnessValues ==
    /\ pc # "reproduce" =>
          \A order \in Orders(NumParts) : FitnessValue(order) \in {NumParts, Inf}
    /\ \A i \in 1..Len(keys) : keys[i] \in {NumParts, Inf}
    /\ pc \in {"break", "reproduce"} => top \in {NumParts, Inf}

\* A sort of at least two parts that met both an order placing every part
\* and one that does not.
C7_Witness ==
    /\ NumParts >= 2
    /\ \E i, j \in 1..Len(keys) : keys[i] = NumParts /\ keys[j] = Inf

\* C8: over a whole nesting run a Part's position, once set, is never
\* assigned again, and a part that is not in the final Sheet's accepted list
\* carries no position.
C8_PositionSetOnce ==
    [][ /\ \A p \in DOMAIN position :
              position[p] # None => position'[p] = position[p]
        /\ pc' = "done" =>
              \A p \in DOMAIN position :
                  ~InList(sheet'.parts, p) => position'[p] = None ]_vars

\* C9: if the returned order has fitness n, the replay of nest_parts accepts
\* all n parts in that order, each at the position the optimizer's trial of
\* that order gives it.
C9_ReplayMatchesTrial ==
    pc = "done" =>
        LET trial == Fitness([p \in DOMAIN position |-> None], best_order)
        IN  trial.value = NumParts =>
                /\ sheet.parts = best_order
                /\ position = trial.position

\* A finished run of at least two parts, all placed, not all at the origin.
C9_Witness ==
    /\ pc = "done"
    /\ NumParts >= 2
    /\ FitnessValue(best_order) = NumParts
    /\ Len(sheet.parts) = NumParts
    /\ \E p \in DOMAIN position : position[p] # <<0, 0>>

\* C10: a box that shares only a boundary edge or corner with an accepted
\* part's box is not reported as overlapping it, so can_place accepts a part
\* placed inside the sheet flush against accepted parts and clear of the
\* others; boxes whose interiors intersect are reported as overlapping.
C10_TouchingIsNotOverlap ==
    \A part \in DOMAIN bounding_box, pos \in DirectPositions :
        LET r1 == Translated(part, pos)
        IN  /\ \A k \in 1..Len(sheet.parts) :
                  /\ Touching(r1, EntryBox(k)) =>
                        ~CheckOverlap(position, part, pos, sheet.parts[k])
                  /\ InteriorsIntersect(r1, EntryBox(k)) =>
                        CheckOverlap(position, part, pos, sheet.parts[k])
            /\ ( /\ InsideSheet(r1)
                 /\ \E k \in 1..Len(sheet.parts) : Touching(r1, EntryBox(k))
                 /\ \A k \in 1..Len(sheet.parts) :
                        Touching(r1, EntryBox(k)) \/ Apart(r1, EntryBox(k)) )
               => CanPlace(sheet, position, part, pos)

\* Two different parts accepted on the Sheet whose boxes share an edge of
\* positive length, the later one accepted by the last call.
C10_Witness ==
    /\ ret = TRUE
    /\ Len(sheet.parts) = 2
    /\ sheet.parts[1] # sheet.parts[2]
    /\ EntryBox(1)[3] = EntryBox(2)[1]
    /\ EntryBox(1)[1] < EntryBox(1)[3]
    /\ EntryBox(2)[1] < EntryBox(2)[3]
    /\ Max(EntryBox(1)[2], EntryBox(2)[2]) < Min(EntryBox(1)[4], EntryBox(2)[4])

\* C11: the population has the configured size population_size at the start
\* of every generation and when genetic_algorithm returns.
C11_PopulationSize ==
    pc \in {"loop", "break", "reproduce", "replay", "done"} =>
        Len(population) = population_size

\* The run of one part of box 20x20 on a 10x10 sheet.
ScenarioB ==
    /\ sheet.width = 10
    /\ sheet.height = 10
    /\ bounding_box = << <<0, 0, 20, 20>> >>

\* C12: a nesting run of a single 20x20 part on a 10x10 sheet completes,
\* leaves the accepted list empty and reports the part as unplaced.
C12_ScenarioB ==
    ScenarioB =>
        /\ pc # "error"
        /\ pc = "done" => sheet.parts = <<>> /\ reported = <<1>>

\* C15: the generation loop ends only by the break, taken at the first
\* generation whose sorted best has fitness n, or by running out of
\* generations; it does not end in an error and goes on otherwise.
C15_LoopEnds ==
    /\ pc # "error"
    /\ pc = "break" => top = NumParts /\ generation < generations
    /\ pc = "reproduce" => top # NumParts /\ generation < generations
    /\ pc \in {"replay", "done"} => top = NumParts \/ generation = generations

\* C16: the overlap decision is symmetric: check_overlap reports part A
\* offered at p as overlapping B placed at q exactly when it reports B offered
\* at q as overlapping A placed at p; hence, both boxes being inside the
\* sheet, a sheet holding only B rejects A exactly when a sheet holding only
\* A rejects B.
C16_OverlapSymmetric ==
    \A k \in 1..Len(sheet.parts), part \in DOMAIN bounding_box, pos \in DirectPositions :
        LET placed == sheet.parts[k]
            q == position[placed]
            swapped == [position EXCEPT ![part] = pos]
        IN  /\ CheckOverlap(position, part, pos, placed)
                 = CheckOverlap(swapped, placed, q, part)
            /\ (part # placed /\ InsideSheet(Translated(part, pos))
                              /\ InsideSheet(Translated(placed, q)))
               => CanPlace([sheet EXCEPT !.parts = <<placed>>], position, part, pos)
                    = CanPlace([sheet EXCEPT !.parts = <<part>>], swapped, placed, q)

\* A call inside the sheet that add_part rejected because the part overlaps
\* another part accepted before.
C16_Witness ==
    /\ call # None
    /\ ret = FALSE
    /\ InsideSheet(Translated(call[1], call[2]))
    /\ \E k \in 1..Len(sheet.parts) :
          /\ sheet.parts[k] # call[1]
          /\ CheckOverlap(position, call[1], call[2], sheet.parts[k])

\* The candidate offsets of a scan with the given step, and the first of
\* them in scan order (smallest x, then smallest y) that can_place accepts;
\* None when it accepts none.
Lattice(sh, step) ==
    {x \in 0..(sh.width - 1) : x % step = 0} \X {y \in 0..(sh.height - 1) : y % step = 0}

FirstFeasible(sh, pos_of, part, step) ==
    LET feasible == {c \in Lattice(sh, step) : CanPlace(sh, pos_of, part, c)}
    IN  IF feasible = {}
        THEN None
        ELSE CHOOSE c \in feasible :
                 \A d \in feasible : c[1] < d[1] \/ (c[1] = d[1] /\ c[2] <= d[2])

\* What a scan must leave when it commits the first feasible candidate.
CommitsFirst(r, sh, pos_of, part, step) ==
    LET first == FirstFeasible(sh, pos_of, part, step)
    IN  IF first = None
        THEN ~r.placed /\ r.sheet = sh /\ r.position = pos_of
        ELSE /\ r.placed
             /\ r.sheet = [sh EXCEPT !.parts = Append(@, part)]
             /\ r.position = [pos_of EXCEPT ![part] = first]

\* C18: the position a candidate scan commits for a part is the first
\* feasible lattice offset in scan order (smallest x, then smallest y) against
\* the parts accepted before it, and the part stays unplaced only if no
\* lattice offset is feasible: for each step of nest_parts' replay, and for
\* the scan of fitness on each sheet the replay goes through.
C18_FirstFit ==
    [][ /\ (pc = "replay" /\ index' = index + 1) =>
              CommitsFirst([placed |-> Len(sheet'.parts) > Len(sheet.parts),
                            sheet |-> sheet', position |-> position'],
                           sheet, position, best_order[index + 1], NestStep)
        /\ pc = "replay" =>
              \A part \in DOMAIN bounding_box :
                  ~InList(sheet.parts, part) =>
                      CommitsFirst(FitnessScan(sheet, position, part, 0, 0),
                                   sheet, position, part, FitnessStep) ]_vars

\* The replay has placed its second part, away from the origin.
C18_Witness ==
    /\ pc = "replay"
    /\ index = 2
    /\ Len(sheet.parts) = 2
    /\ position[best_order[2]] # <<0, 0>>

\* The lowest fitness of a population, the parts' positions being pos_of.
BestFitness(pop, pos_of) ==
    LET values == {Fitness(pos_of, pop[i]).value : i \in 1..Len(pop)}
    IN  CHOOSE v \in values : \A w \in values : ~FitnessLess(w, v)

\* C19: from one generation to the next the lowest fitness of the
\* population does not get worse.
C19_BestNeverWorse ==
    [][ (pc = "reproduce" /\ pc' = "loop") =>
            ~FitnessLess(BestFitness(population, position),
                         BestFitness(population', position')) ]_vars

\* A later generation that holds an order placing every part.
C19_Witness ==
    /\ generation >= 1
    /\ pc = "loop"
    /\ \E i \in 1..Len(population) : FitnessValue(population[i]) = NumParts
    /\ \E i \in 1..Len(population) : FitnessValue(population[i]) = Inf

\* C20: fitness(order) does not depend on the positions earlier trials left
\* on the parts: it is the value of a trial on parts without positions; so
\* the keys of the sort are the values a new evaluation gives, and the best
\* key is the value of the early-exit test.
C20_FitnessIgnoresStalePositions ==
    /\ pc # "reproduce" =>
          \A order \in Orders(NumParts) :
              FitnessValue(order)
                = Fitness([p \in DOMAIN position |-> None], order).value
    /\ pc \in {"break", "reproduce"} =>
          /\ top = keys[1]
          /\ \A i \in 1..Len(population) : keys[i] = FitnessValue(population[i])

\* After a sort, every part carries a position and some order's trial would
\* leave other positions than the parts now have.
C20_Witness ==
    /\ pc \in {"break", "reproduce"}
    /\ NumParts >= 2
    /\ \A p \in DOMAIN position : position[p] # None
    /\ \E order \in Orders(NumParts) : Fitness(position, order).position # position

\* ------------------------------------- a nesting run from its input files

\* The point lists of the input files of a run; the empty one is a file
\* without recognised entities.
PointLists ==
    { <<>>,
      << <<0, 0>>, <<10, 0>>, <<10, 10>>, <<0, 10>> >>,
      << <<20, 0>>, <<0, 20>>, <<0, 0>> >>,
      << <<5, 10>>, <<0, 0>> >> }

InitLoad ==
    /\ \E n \in 1..MaxParts : part_files \in [1..n -> PointLists]
    /\ parts = <<>>
    /\ bounding_box = <<>>
    /\ position = <<>>
    /\ \E d \in RunSheets : sheet = NewSheet(d[1], d[2])
    /\ call = None
    /\ ret = FALSE
    /\ population_size \in PopulationSizes
    /\ generations = MaxGenerations
    /\ population = <<>>
    /\ next_generation = <<>>
    /\ generation = 0
    /\ keys = <<>>
    /\ top = 0
    /\ best_order = <<>>
    /\ index = 0
    /\ reported = <<>>
    /\ pc = "load"

\* parts = [Part(file) for file in part_files]: every Part computes its
\* bounding box; the first file without points raises and ends the run.
LoadParts ==
    /\ pc = "load"
    /\ IF \E i \in DOMAIN part_files : CalculateBoundingBox(part_files[i]).raised
       THEN /\ pc' = "load_error"
            /\ UNCHANGED <<parts, bounding_box, position>>
       ELSE /\ bounding_box' = [i \in DOMAIN part_files |->
                                   CalculateBoundingBox(part_files[i]).box]
            /\ parts' = [i \in DOMAIN part_files |-> i]
            /\ position' = [i \in DOMAIN part_files |-> None]
            /\ pc' = "start"
    /\ UNCHANGED <<part_files, sheet, call, ret>>
    /\ UNCHANGED gaVars

NextLoad == LoadParts \/ Next

SpecLoad == InitLoad /\ [][NextLoad]_vars

\* C17: if an input part yields no sample points, the run fails while the
\* parts are built: no part list, no population, no order, nothing placed
\* and no Sheet returned.
C17_EmptyGeometryFailsFast ==
    (\E i \in DOMAIN part_files : part_files[i] = <<>>) =>
        /\ pc \in {"load", "load_error"}
        /\ parts = <<>>
        /\ bounding_box = <<>>
        /\ population = <<>>
        /\ best_order = <<>>
        /\ sheet.parts = <<>>

\* The run has failed on a file without points that follows a good one.
C17_Witness ==
    /\ pc = "load_error"
    /\ Len(part_files) >= 2
    /\ part_files[1] # <<>>
    /\ part_files[2] = <<>>

\* --------------------------- the greedy nest_parts (largest area first)

\* Largest number of parts of a greedy run.
MaxGreedyParts == 3

\* Dimensions <<sheet_width, sheet_height>> of a greedy run.
GreedySheets == {<<5, 15>>, <<15, 5>>, <<10, 10>>}

\* Bounding boxes of the parts of a greedy run.
GreedyBoxes == {<<0, 0, 5, 5>>, <<0, 0, 10, 5>>, <<0, 0, 10, 10>>}

\* The key of optimize_parts: width * height of the bounding box.
Area(part) ==
    (bounding_box[part][3] - bounding_box[part][1])
      * (bounding_box[part][4] - bounding_box[part][2])

\* A part put into a list sorted by descending area, after every part whose
\* area is not smaller (list.sort(reverse=True) is stable).
RECURSIVE InsertByArea(_, _)
InsertByArea(sorted, part) ==
    IF sorted = <<>> \/ Area(sorted[Len(sorted)]) >= Area(part)
    THEN Append(sorted, part)
    ELSE Append(InsertByArea(SubSeq(sorted, 1, Len(sorted) - 1), part),
                sorted[Len(sorted)])

RECURSIVE SortedByArea(_, _)
SortedByArea(list, k) ==
    IF k = 0 THEN <<>> ELSE InsertByArea(SortedByArea(list, k - 1), list[k])

\* The inner loop, for y in range(sheet.height), of the greedy nest_parts at
\* column x, from candidate y on: the first y that add_part accepts.
RECURSIVE GreedyColumn(_, _, _, _, _)
GreedyColumn(sh, pos_of, part, x, y) ==
    IF y >= sh.height
    THEN [placed |-> FALSE, sheet |-> sh, position |-> pos_of]
    ELSE LET r == AddPart(sh, pos_of, part, <<x, y>>)
         IN  IF r.ret
             THEN [placed |-> TRUE, sheet |-> r.sheet, position |-> r.position]
             ELSE GreedyColumn(sh, pos_of, part, x, y + 1)

\* The outer loop, for x in range(sheet.width), from column x on; it breaks
\* as soon as the inner loop has placed the part.
RECURSIVE GreedyScan(_, _, _, _)
GreedyScan(sh, pos_of, part, x) ==
    IF x >= sh.width
    THEN [placed |-> FALSE, sheet |-> sh, position |-> pos_of]
    ELSE LET r == GreedyColumn(sh, pos_of, part, x, 0)
         IN  IF r.placed THEN r ELSE GreedyScan(sh, pos_of, part, x + 1)

InitGreedy ==
    /\ \E n \in 1..MaxGreedyParts : bounding_box \in [1..n -> GreedyBoxes]
    /\ part_files = [p \in DOMAIN bounding_box |-> CornerPoints(bounding_box[p])]
    /\ parts = [p \in DOMAIN bounding_box |-> p]
    /\ position = [p \in DOMAIN bounding_box |-> None]
    /\ \E d \in GreedySheets : sheet = NewSheet(d[1], d[2])
    /\ call = None
    /\ ret = FALSE
    /\ population_size = 0
    /\ generations = 0
    /\ population = <<>>
    /\ next_generation = <<>>
    /\ generation = 0
    /\ keys = <<>>
    /\ top = 0
    /\ best_order = <<>>
    /\ index = 0
    /\ reported = <<>>
    /\ pc = "optimize"

\* parts = optimize_parts(parts)
OptimizeParts ==
    /\ pc = "optimize"
    /\ parts' = SortedByArea(parts, Len(parts))
    /\ pc' = "greedy"
    /\ UNCHANGED <<part_files, bounding_box, position, sheet, call, ret>>
    /\ UNCHANGED gaVars

\* One iteration of the loop over parts: the part is offered at each
\* candidate until add_part accepts it; a part no candidate takes is
\* printed as "Could not place part".
GreedyPlace ==
    /\ pc = "greedy"
    /\ index < Len(parts)
    /\ LET part == parts[index + 1]
           r == GreedyScan(sheet, position, part, 0)
       IN  /\ sheet' = r.sheet
           /\ position' = r.position
           /\ reported' = IF r.placed THEN reported ELSE Append(reported, part)
    /\ index' = index + 1
    /\ UNCHANGED <<part_files, parts, bounding_box, call, ret, population_size,
                   generations, population, next_generation, generation, keys,
                   top, best_order, pc>>

\* return sheet
GreedyReturn ==
    /\ pc = "greedy"
    /\ index = Len(parts)
    /\ pc' = "done"
    /\ UNCHANGED <<part_files, parts, bounding_box, position, sheet, call, ret,
                   population_size, generations, population, next_generation,
                   generation, keys, top, best_order, index, reported>>

NextGreedy == OptimizeParts \/ GreedyPlace \/ GreedyReturn

SpecGreedy == InitGreedy /\ [][NextGreedy]_vars

\* Three parts of box 5x5 on a sheet of width 5 and height 15.
ScenarioC ==
    /\ sheet.width = 5
    /\ sheet.height = 15
    /\ bounding_box = << <<0, 0, 5, 5>>, <<0, 0, 5, 5>>, <<0, 0, 5, 5>> >>

\* C14: three identical 5x5 parts on a sheet of width 5 and height 15 are
\* all placed by the exhaustive first-fit search, in the order they are
\* offered, at x = 0 and y = 0, 5 and 10; none is reported as unplaced.
C14_ScenarioC ==
    ScenarioC =>
        /\ pc = "greedy" =>
              /\ sheet.parts = SubSeq(<<1, 2, 3>>, 1, index)
              /\ \A p \in 1..index : position[p] = <<0, 5 * (p - 1)>>
        /\ pc = "done" =>
              /\ sheet.parts = <<1, 2, 3>>
              /\ position = << <<0, 0>>, <<0, 5>>, <<0, 10>> >>
              /\ reported = <<>>

\* The run of the three parts has ended.
C14_Witness ==
    /\ ScenarioC
    /\ pc = "done"
    /\ Len(sheet.parts) = 3

\* ------------------------------------- a nesting run on a 100x100 sheet

\* Bounding boxes measuring 10x10, at and away from the drawing's origin.
SquareBoxes == {<<0, 0, 10, 10>>, <<5, 5, 15, 15>>, <<95, 0, 105, 10>>}

\* nest_parts(100, 100, part_files) after sheet = Sheet(100, 100) and the
\* loading of parts whose boxes measure 10x10.
InitSquares ==
    /\ \E n \in 1..MaxParts : bounding_box \in [1..n -> SquareBoxes]
    /\ part_files = [p \in DOMAIN bounding_box |-> CornerPoints(bounding_box[p])]
    /\ parts = [p \in DOMAIN bounding_box |-> p]
    /\ position = [p \in DOMAIN bounding_box |-> None]
    /\ sheet = NewSheet(100, 100)
    /\ call = None
    /\ ret = FALSE
    /\ population_size \in PopulationSizes
    /\ generations = MaxGenerations
    /\ population = <<>>
    /\ next_generation = <<>>
    /\ generation = 0
    /\ keys = <<>>
    /\ top = 0
    /\ best_order = <<>>
    /\ index = 0
    /\ reported = <<>>
    /\ pc = "start"

SpecSquares == InitSquares /\ [][Next]_vars

\* C13: on a 100x100 sheet, any two parts whose bounding boxes each measure
\* 10x10 are both accepted by the nesting run; their final translated boxes
\* lie within [0,100] x [0,100] and do not intersect.
C13_ScenarioA ==
    (NumParts = 2 /\ sheet.width = 100 /\ sheet.height = 100) =>
        /\ pc # "error"
        /\ pc = "done" =>
              /\ InList(sheet.parts, 1)
              /\ InList(sheet.parts, 2)
              /\ Len(sheet.parts) = 2
              /\ InsideSheet(EntryBox(1))
              /\ InsideSheet(EntryBox(2))
              /\ ~InteriorsIntersect(EntryBox(1), EntryBox(2))

====
